---- MODULE Spec2Model ----
(***************************************************************************)
(* Model of the push-gateway publisher of rk-prom (PushGatewayPusher,      *)
(* pusher.go): the running flag (an atomic boolean), the mutex, the        *)
(* caller threads that issue Start / Stop / IsRunning / GetPusher, and     *)
(* the background goroutines that execute the push loop; the constructor   *)
(* NewPushGatewayPusher and String(); and the Bootstrap / Interrupt of the *)
(* PromEntry that owns a publisher (collectors.go).                        *)
(***************************************************************************)
EXTENDS Integers, Sequences, FiniteSets

\* ---- bounds of the model ----
NumThreads == 2
MaxTasks == 2

\* longest credential, longest host part of an address, largest |interval|
MaxCredLen == 3
MaxHostLen == 1
IntervalBound == 2
\* longest path given to an entry
MaxPathLen == 4
\* most collectors given to one RegisterCollectors call
MaxCollectors == 3

Threads == 1..NumThreads
Tasks == 1..MaxTasks
NoThread == 0

\* ---- strings: sequences of one-character strings ----

SeqsUpTo(alphabet, n) == UNION {[1..m -> alphabet] : m \in 0..n}

\* strings.HasPrefix
HasPrefix(s, prefix) ==
    /\ Len(s) >= Len(prefix)
    /\ SubSeq(s, 1, Len(prefix)) = prefix

\* strings.Contains
Contains(s, substr) ==
    \E i \in 0..(Len(s) - Len(substr)) : SubSeq(s, i + 1, i + Len(substr)) = substr

\* strings.TrimSpace: leading and trailing white space removed
RECURSIVE TrimLeft(_)
TrimLeft(s) == IF s # <<>> /\ Head(s) = " " THEN TrimLeft(Tail(s)) ELSE s

RECURSIVE TrimRight(_)
TrimRight(s) ==
    IF s # <<>> /\ s[Len(s)] = " " THEN TrimRight(SubSeq(s, 1, Len(s) - 1)) ELSE s

TrimSpace(s) == TrimRight(TrimLeft(s))

\* strings.Split(s, sep) for a one-character separator: the tokens between
\* the separators, one more token than there are separators
RECURSIVE Split(_, _)
Split(s, sep) ==
    IF \A i \in 1..Len(s) : s[i] # sep
    THEN <<s>>
    ELSE LET i == CHOOSE j \in 1..Len(s) :
                      /\ s[j] = sep
                      /\ \A h \in 1..(j - 1) : s[h] # sep
         IN <<SubSeq(s, 1, i - 1)>> \o Split(SubSeq(s, i + 1, Len(s)), sep)

HTTPS == <<"h", "t", "t", "p", "s", ":", "/", "/">>
HTTP == <<"h", "t", "t", "p", ":", "/", "/">>

\* ---- the options of NewPushGatewayPusher ----

\* nil pointers
NoCert == [nil |-> TRUE]
NoAuth == [nil |-> TRUE]
NoTLS == [nil |-> TRUE]
NilPub == [nil |-> TRUE]
NoError == "nil"

\* 1 * time.Second, the interval when WithIntervalMSPusher is not given
DefaultIntervalMS == 1000000000

Hosts == SeqsUpTo({"a"}, MaxHostLen)
\* what an address may start with: nothing, a scheme, "https:/" (one
\* character short of the scheme), and the scheme after another character
Prefixes ==
    {<<>>, HTTP, HTTPS, SubSeq(HTTPS, 1, Len(HTTPS) - 1), <<"x">> \o HTTPS}

\* WithIntervalMSPusher(i) given as <<i>>, not given as << >>
IntervalInputs == {<<i>> : i \in (0 - IntervalBound)..IntervalBound} \cup {<<>>}
AddressInputs == {p \o h : p \in Prefixes, h \in Hosts}
JobNameInputs == {<<>>, <<"j">>, <<"j", "\"">>}
CredentialInputs == SeqsUpTo({"u", ":", " "}, MaxCredLen)
\* a CertStore: PEM bytes that parse ("pem") or do not ("junk")
CertStoreInputs ==
    {NoCert} \cup [ServerCert : {"pem", "junk"}, ClientPair : {"pem", "junk"}]

OptionInputs ==
    [IntervalMS : IntervalInputs,
     RemoteAddress : AddressInputs,
     JobName : JobNameInputs,
     Credential : CredentialInputs,
     CertStore : CertStoreInputs]

\* the publisher the lifecycle below is run on when nothing else is said
DefaultOptions ==
    [IntervalMS |-> <<>>,
     RemoteAddress |-> <<"a">>,
     JobName |-> <<"j">>,
     Credential |-> <<>>,
     CertStore |-> NoCert]

\* ---- NewPushGatewayPusher, step by step ----

\* the struct literal followed by the options
AppliedInterval(o) ==
    IF o.IntervalMS = <<>> THEN DefaultIntervalMS ELSE o.IntervalMS[1]

InvalidInterval_ZeroAllowed(intervalMS) == intervalMS < 0
InvalidInterval(intervalMS) == intervalMS < 1

EmptyAddress_Never(remoteAddress) == FALSE
EmptyAddress(remoteAddress) == Len(remoteAddress) < 1

EmptyJobName(jobName) == Len(jobName) < 1

\* certificate was provided: https is used for the remote address
ResolveAddress_ReplaceHttp(remoteAddress, certStore) ==
    IF certStore # NoCert /\ ~HasPrefix(remoteAddress, HTTPS)
    THEN IF HasPrefix(remoteAddress, HTTP)
         THEN HTTPS \o SubSeq(remoteAddress, Len(HTTP) + 1, Len(remoteAddress))
         ELSE HTTPS \o remoteAddress
    ELSE remoteAddress
ResolveAddress(remoteAddress, certStore) ==
    IF certStore # NoCert /\ ~HasPrefix(remoteAddress, HTTPS)
    THEN HTTPS \o remoteAddress
    ELSE remoteAddress

\* pg.Credential after construction: trimmed only when it holds a colon
StoredCredential(cred) ==
    IF Len(cred) > 0 /\ Contains(cred, <<":">>) THEN TrimSpace(cred) ELSE cred

\* the basic auth given to the forwarder
BasicAuth_FirstTwoTokens(cred) ==
    IF Len(cred) > 0 /\ Contains(cred, <<":">>)
    THEN LET tokens == Split(TrimSpace(cred), ":")
         IN IF Len(tokens) >= 2
            THEN [username |-> tokens[1], password |-> tokens[2]]
            ELSE NoAuth
    ELSE NoAuth
BasicAuth(cred) ==
    IF Len(cred) > 0 /\ Contains(cred, <<":">>)
    THEN LET tokens == Split(TrimSpace(cred), ":")
         IN IF Len(tokens) = 2
            THEN [username |-> tokens[1], password |-> tokens[2]]
            ELSE NoAuth
    ELSE NoAuth

\* x509.CertPool.AppendCertsFromPEM: whether a certificate was added
AppendCertsFromPEM(serverCert) == serverCert = "pem"
\* tls.X509KeyPair: the error it returns
X509KeyPairError(clientPair) == IF clientPair = "pem" THEN NoError ELSE "bad pair"

\* the tls.Config of the forwarder's http client
TLSConfig_AlwaysAttach(certStore) ==
    IF certStore = NoCert
    THEN NoTLS
    ELSE [RootCAs |-> AppendCertsFromPEM(certStore.ServerCert),
          Certificates |-> TRUE]
TLSConfig(certStore) ==
    IF certStore = NoCert
    THEN NoTLS
    ELSE [RootCAs |-> AppendCertsFromPEM(certStore.ServerCert),
          Certificates |-> X509KeyPairError(certStore.ClientPair) = NoError]

\* the publisher and the error NewPushGatewayPusher returns for options o
NewPushGatewayPusher(o) ==
    LET intervalMS == AppliedInterval(o)
        address == ResolveAddress(o.RemoteAddress, o.CertStore)
    IN IF InvalidInterval(intervalMS)
       THEN [pub |-> NilPub, err |-> "invalid intervalMS"]
       ELSE IF EmptyAddress(o.RemoteAddress)
       THEN [pub |-> NilPub, err |-> "empty remoteAddress"]
       ELSE IF EmptyJobName(o.JobName)
       THEN [pub |-> NilPub, err |-> "empty job name"]
       ELSE [pub |->
                [IntervalMS |-> intervalMS,
                 RemoteAddress |-> address,
                 JobName |-> o.JobName,
                 Credential |-> StoredCredential(o.Credential),
                 CertStore |-> o.CertStore,
                 Pusher |-> [url |-> address,
                             job |-> o.JobName,
                             auth |-> BasicAuth(o.Credential),
                             tls |-> TLSConfig(o.CertStore)]],
             err |-> NoError]

VARIABLES
    Running,       \* PushGatewayPusher.Running (atomic.Bool)
    lock,          \* holder of PushGatewayPusher.lock, NoThread when free
    cpc,           \* position of every caller thread
    task,          \* position of every goroutine running push()
    machine,       \* the two-state machine {Stopped, Running} run side by side
    lastReturned,  \* which of Start / Stop returned last
    doomed,        \* tasks that were alive when a Stop cleared the flag
    opts,          \* the options given to NewPushGatewayPusher
    pub,           \* the publisher it returned, NilPub before and on failure
    newErr,        \* the error it returned, "pending" before the call
    snap,          \* what String() returned last, NoSnap before
    epc,           \* position of the owner of a PromEntry in Bootstrap / Interrupt
    server,        \* PromEntry.Server
    pathOpt,       \* WithPath(p) given as <<p>>, not given as << >>
    path,          \* PromEntry.Path
    gatherer,      \* the gatherer the forwarder collects from and who set it
    registerer,    \* the collectors registered with PromEntry.Registerer
    collectors,    \* the arguments of the last RegisterCollectors call
    regErr,        \* what that call returned
    set,           \* the MetricsSet
    prom,          \* the default registry of the prometheus client
    msCall,        \* the last call on the MetricsSet and what it returned
    iter,          \* what each push loop did since its last flag check
    flips          \* how often the flag went from false to true

\* what the calls on a publisher leave alone
\* the entry's path and collectors, and the metrics set
aux == <<pathOpt, path, gatherer, registerer, collectors, regErr, set, prom, msCall>>

config == <<opts, pub, newErr, snap, epc, server, aux>>

vars == <<Running, lock, cpc, task, machine, lastReturned, doomed, config, iter, flips>>

CallerPcs ==
    {"idle",
     "start_lock", "start_load", "start_go", "start_unlock",
     "stop_lock", "stop_cas", "stop_unlock",
     "isrunning_true", "isrunning_false",
     "get_lock", "get_unlock", "got_pusher", "manual_push"}

TaskPcs ==
    {"none", "check", "event", "pushing", "finish_ok", "finish_err",
     "sleep", "done"}

EntryPcs ==
    {"none", "register", "registered",
     "boot_cert", "boot_serve", "boot_pusher", "boot_in_start", "booted",
     "int_in_stop", "int_server", "interrupted", "exited"}

\* ---- String(): json.Marshal of the exported fields ----

NoSnap == [nil |-> TRUE]

\* encoding/json writes a string between quotes and escapes the quote, the
\* backslash and (HTML escaping) the ampersand
RECURSIVE JSONEscape(_)
JSONEscape(s) ==
    IF s = <<>> THEN <<>>
    ELSE LET c == Head(s)
             e == IF c = "\"" THEN <<"\\", "\"">>
                  ELSE IF c = "\\" THEN <<"\\", "\\">>
                  ELSE IF c = "&" THEN <<"\\", "u", "0", "0", "2", "6">>
                  ELSE <<c>>
         IN e \o JSONEscape(Tail(s))

JSONString(s) == <<"\"">> \o JSONEscape(s) \o <<"\"">>

\* the members of the JSON object String() returns for publisher p whose
\* flag reads running; the unexported lock is left out, the forwarder has no
\* exported field
String_NoEscape(p, running) ==
    [IntervalMS |-> p.IntervalMS,
     RemoteAddress |-> <<"\"">> \o p.RemoteAddress \o <<"\"">>,
     JobName |-> <<"\"">> \o p.JobName \o <<"\"">>,
     Running |-> running,
     Credential |-> <<"\"">> \o p.Credential \o <<"\"">>,
     Pusher |-> "{}"]
String(p, running) ==
    [IntervalMS |-> p.IntervalMS,
     RemoteAddress |-> JSONString(p.RemoteAddress),
     JobName |-> JSONString(p.JobName),
     Running |-> running,
     Credential |-> JSONString(p.Credential),
     Pusher |-> "{}"]

\* no entry registered, nothing registered with it, no metrics set made
NoSet == [nil |-> TRUE]
NilVec == [nil |-> TRUE]
NoCall ==
    [op |-> "none", kind |-> "none", name |-> <<>>, labelKeys |-> <<>>,
     ret |-> "nil", vec |-> NilVec]
EmptyRegistry == [collectorsByID |-> {}, dimHashesByName |-> {}]

\* the loops' doings are recorded only where the iterations are observed
NotTraced == <<>>
Traced == [k \in Tasks |-> <<>>]

AuxInit ==
    /\ pathOpt = <<>>
    /\ path = <<>>
    /\ gatherer = [bound |-> "DefaultGatherer", by |-> "push.New"]
    /\ registerer = {}
    /\ collectors = <<>>
    /\ regErr = <<"none">>
    /\ set = NoSet
    /\ prom = EmptyRegistry
    /\ msCall = NoCall
    /\ iter = NotTraced
    /\ flips = 0

TypeOK ==
    /\ Running \in BOOLEAN
    /\ lock \in Threads \cup {NoThread}
    /\ cpc \in [Threads -> CallerPcs]
    /\ task \in [Tasks -> TaskPcs]
    /\ machine \in {"Stopped", "Running"}
    /\ lastReturned \in {"none", "Start", "Stop"}
    /\ doomed \subseteq Tasks
    /\ opts \in OptionInputs
    /\ pub = NilPub \/ pub = NewPushGatewayPusher(opts).pub
    /\ newErr \in {"pending", "disabled", NoError, "invalid intervalMS",
                "empty remoteAddress", "empty job name"}
    /\ snap = NoSnap \/ \E r \in BOOLEAN : snap = String(pub, r)
    /\ epc \in EntryPcs
    /\ server \in {"nil", "created", "serving", "closed"}

\* ---- helpers ----

\* atomic.Bool.CAS(old, new) applied to the current value cur
CAS(cur, old, new) == IF cur = old THEN new ELSE cur

Alive(tk) == {k \in Tasks : tk[k] \notin {"none", "done"}}
Launched == Cardinality({k \in Tasks : task[k] # "none"})

\* callers that are inside Start and may still launch a task
PendingStarts ==
    Cardinality({t \in Threads : cpc[t] \in {"start_lock", "start_load", "start_go"}})

\* ---- the two-state machine of the design notes ----
MachineStart(m) == IF m = "Stopped" THEN "Running" ELSE m
MachineStop(m) == IF m = "Running" THEN "Stopped" ELSE m

\* atomic.NewBool(false) of the constructor
NewRunning_True == TRUE
NewRunning == FALSE

Init ==
    /\ Running = NewRunning
    /\ lock = NoThread
    /\ cpc = [t \in Threads |-> "idle"]
    /\ task = [k \in Tasks |-> "none"]
    /\ machine = "Stopped"
    /\ lastReturned = "none"
    /\ doomed = {}
    /\ opts = DefaultOptions
    /\ pub = NewPushGatewayPusher(opts).pub
    /\ newErr = NewPushGatewayPusher(opts).err
    /\ snap = NoSnap
    /\ epc = "none"
    /\ server = "nil"
    /\ AuxInit

\* ---- Start ----

\* a Start that never takes the "already started" branch
StartAlreadyRunning_Never(running) == FALSE

\* Start: the guard of line 183, "periodic job already started"
StartAlreadyRunning(running) == running

\* a Start that forgets to set the flag
StartFlag_Keep(running) == running

\* Start: pub.Running.CAS(false, true)
StartFlag(running) == CAS(running, FALSE, TRUE)

\* a caller invokes Start(); it will block on the mutex
StartCall(t) ==
    /\ cpc[t] = "idle"
    /\ Launched + PendingStarts < MaxTasks
    /\ cpc' = [cpc EXCEPT ![t] = "start_lock"]
    /\ UNCHANGED <<Running, lock, task, machine, lastReturned, doomed, config, iter, flips>>

\* pub.lock.Lock()
StartLock(t) ==
    /\ cpc[t] = "start_lock"
    /\ lock = NoThread
    /\ lock' = t
    /\ cpc' = [cpc EXCEPT ![t] = "start_load"]
    /\ machine' = MachineStart(machine)
    /\ UNCHANGED <<Running, task, lastReturned, doomed, config, iter, flips>>

\* if pub.Running.Load() { return }; pub.Running.CAS(false, true)
StartCheck(t) ==
    /\ cpc[t] = "start_load"
    /\ IF StartAlreadyRunning(Running)
       THEN /\ cpc' = [cpc EXCEPT ![t] = "start_unlock"]
            /\ UNCHANGED Running
       ELSE /\ Running' = StartFlag(Running)
            /\ cpc' = [cpc EXCEPT ![t] = "start_go"]
    /\ flips' = IF ~Running /\ Running' THEN flips + 1 ELSE flips
    /\ UNCHANGED <<lock, task, machine, lastReturned, doomed, config, iter>>

\* a Start that sets the flag and forgets to launch the loop
StartGo_NoLaunch(t) ==
    /\ cpc[t] = "start_go"
    /\ cpc' = [cpc EXCEPT ![t] = "start_unlock"]
    /\ UNCHANGED <<Running, lock, task, machine, lastReturned, doomed, config, iter, flips>>

\* go pub.push()
StartGo(t) ==
    /\ cpc[t] = "start_go"
    /\ Launched < MaxTasks
    /\ task' = [task EXCEPT ![Launched + 1] = "check"]
    /\ cpc' = [cpc EXCEPT ![t] = "start_unlock"]
    /\ UNCHANGED <<Running, lock, machine, lastReturned, doomed, config, iter, flips>>

\* a Start that returns with the mutex still locked
StartUnlock_KeepsLock(t) ==
    /\ cpc[t] = "start_unlock"
    /\ cpc' = [cpc EXCEPT ![t] = "idle"]
    /\ lastReturned' = "Start"
    /\ UNCHANGED <<Running, lock, task, machine, doomed, config, iter, flips>>

\* deferred pub.lock.Unlock(), Start returns
StartUnlock(t) ==
    /\ cpc[t] = "start_unlock"
    /\ lock' = NoThread
    /\ cpc' = [cpc EXCEPT ![t] = "idle"]
    /\ lastReturned' = "Start"
    /\ UNCHANGED <<Running, task, machine, doomed, config, iter, flips>>

\* ---- Stop ----

\* a Stop that leaves the flag as it is
StopFlag_Keep(running) == running

\* a Stop that toggles the flag instead of clearing it
StopFlag_Toggle(running) == ~running

\* a Stop with the CAS of Start
StopFlag_AsStart(running) == CAS(running, FALSE, TRUE)

\* Stop: pub.Running.CAS(true, false)
StopFlag(running) == CAS(running, TRUE, FALSE)

StopCall(t) ==
    /\ cpc[t] = "idle"
    /\ cpc' = [cpc EXCEPT ![t] = "stop_lock"]
    /\ UNCHANGED <<Running, lock, task, machine, lastReturned, doomed, config, iter, flips>>

\* a Stop that goes on to its CAS without taking the mutex
StopLock_Skipped(t) ==
    /\ cpc[t] = "stop_lock"
    /\ cpc' = [cpc EXCEPT ![t] = "stop_cas"]
    /\ machine' = MachineStop(machine)
    /\ UNCHANGED <<Running, lock, task, lastReturned, doomed, config, iter, flips>>

\* pub.lock.Lock() of Stop
StopLock(t) ==
    /\ cpc[t] = "stop_lock"
    /\ lock = NoThread
    /\ lock' = t
    /\ cpc' = [cpc EXCEPT ![t] = "stop_cas"]
    /\ machine' = MachineStop(machine)
    /\ UNCHANGED <<Running, task, lastReturned, doomed, config, iter, flips>>

\* a Stop that also lets go of the forwarder
StopCAS_DropsForwarder(t) ==
    /\ cpc[t] = "stop_cas"
    /\ Running' = StopFlag(Running)
    /\ doomed' = IF Running /\ ~Running' THEN doomed \cup Alive(task) ELSE doomed
    /\ cpc' = [cpc EXCEPT ![t] = "stop_unlock"]
    /\ pub' = [pub EXCEPT !.Pusher = NoAuth]
    /\ UNCHANGED <<lock, task, machine, lastReturned>>
    /\ UNCHANGED <<opts, newErr, snap, epc, server, aux, iter, flips>>

\* pub.Running.CAS(true, false)
StopCAS(t) ==
    /\ cpc[t] = "stop_cas"
    /\ Running' = StopFlag(Running)
    /\ doomed' = IF Running /\ ~Running' THEN doomed \cup Alive(task) ELSE doomed
    /\ cpc' = [cpc EXCEPT ![t] = "stop_unlock"]
    /\ UNCHANGED <<lock, task, machine, lastReturned, config, iter, flips>>

StopUnlock(t) ==
    /\ cpc[t] = "stop_unlock"
    /\ lock' = NoThread
    /\ cpc' = [cpc EXCEPT ![t] = "idle"]
    /\ lastReturned' = "Stop"
    /\ UNCHANGED <<Running, task, machine, doomed, config, iter, flips>>

\* ---- IsRunning ----

\* return pub.Running.Load(), no mutex involved
IsRunning(t) ==
    /\ cpc[t] = "idle"
    /\ cpc' = [cpc EXCEPT ![t] = IF Running THEN "isrunning_true" ELSE "isrunning_false"]
    /\ UNCHANGED <<Running, lock, task, machine, lastReturned, doomed, config, iter, flips>>

\* the caller consumes the result
IsRunningReturn(t) ==
    /\ cpc[t] \in {"isrunning_true", "isrunning_false"}
    /\ cpc' = [cpc EXCEPT ![t] = "idle"]
    /\ UNCHANGED <<Running, lock, task, machine, lastReturned, doomed, config, iter, flips>>

\* ---- GetPusher and a manual push through the returned forwarder ----

GetPusherCall(t) ==
    /\ cpc[t] = "idle"
    /\ cpc' = [cpc EXCEPT ![t] = "get_lock"]
    /\ UNCHANGED <<Running, lock, task, machine, lastReturned, doomed, config, iter, flips>>

GetPusherLock(t) ==
    /\ cpc[t] = "get_lock"
    /\ lock = NoThread
    /\ lock' = t
    /\ cpc' = [cpc EXCEPT ![t] = "get_unlock"]
    /\ UNCHANGED <<Running, task, machine, lastReturned, doomed, config, iter, flips>>

\* return pub.Pusher with the deferred Unlock
GetPusherUnlock(t) ==
    /\ cpc[t] = "get_unlock"
    /\ lock' = NoThread
    /\ cpc' = [cpc EXCEPT ![t] = "got_pusher"]
    /\ UNCHANGED <<Running, task, machine, lastReturned, doomed, config, iter, flips>>

\* the caller calls Push() on the forwarder it was handed
ManualPushBegin(t) ==
    /\ cpc[t] = "got_pusher"
    /\ cpc' = [cpc EXCEPT ![t] = "manual_push"]
    /\ UNCHANGED <<Running, lock, task, machine, lastReturned, doomed, config, iter, flips>>

\* the manual Push() returns, or the caller drops the forwarder unused
ManualPushEnd(t) ==
    /\ cpc[t] \in {"got_pusher", "manual_push"}
    /\ cpc' = [cpc EXCEPT ![t] = "idle"]
    /\ UNCHANGED <<Running, lock, task, machine, lastReturned, doomed, config, iter, flips>>

\* ---- push(), the loop of the background goroutine ----

\* a loop that never looks at the flag
LoopContinues_Always(running) == TRUE

\* a loop that returns at its first look at the flag
LoopContinues_Never(running) == FALSE

\* for pub.Running.Load() { ... }
LoopContinues(running) == running

\* a loop that gives up on the first failed push
AfterPush_ExitOnError(err) == IF err THEN "done" ELSE "finish_ok"

\* the branch taken on the result of pub.Pusher.Push()
AfterPush(err) == IF err THEN "finish_err" ELSE "finish_ok"

\* a task that pushes once and returns
AfterSleep_Exit == "done"

\* a loop that tests the flag only before its first push
AfterSleep_NoRecheck == "event"

\* after time.Sleep the loop goes back to its condition
AfterSleep == "check"

\* the marker that ends the event: FinishWithError(event, err) or Finish(event)
FinishMarker_AlwaysFinish(err) == "Finish"
FinishMarker(err) == IF err THEN "FinishWithError" ELSE "Finish"

\* time.Sleep(pub.IntervalMS)
SleepFor(p) == p.IntervalMS

\* the loop of task k did `what`
Did(k, what, d) ==
    IF iter = NotTraced THEN iter
    ELSE [iter EXCEPT ![k] = Append(@, [did |-> what, d |-> d])]

\* the loop of task k evaluated its condition: a new iteration, or the end
Checked(k) == IF iter = NotTraced THEN iter ELSE [iter EXCEPT ![k] = <<>>]

LoopCheck(k) ==
    /\ task[k] = "check"
    /\ IF LoopContinues(Running)
       THEN /\ task' = [task EXCEPT ![k] = "event"]
            /\ UNCHANGED doomed
       ELSE /\ task' = [task EXCEPT ![k] = "done"]
            /\ doomed' = doomed \ {k}
    /\ iter' = Checked(k)
    /\ UNCHANGED <<Running, lock, cpc, machine, lastReturned, config, flips>>

\* event := ...Start("publish"); the call of pub.Pusher.Push() begins
LoopPushBegin(k) ==
    /\ task[k] = "event"
    /\ task' = [task EXCEPT ![k] = "pushing"]
    /\ iter' = Did(k, "Start", 0)
    /\ UNCHANGED <<Running, lock, cpc, machine, lastReturned, doomed, config, flips>>

\* pub.Pusher.Push() returns, with or without an error
LoopPushReturn(k) ==
    /\ task[k] = "pushing"
    /\ \E err \in BOOLEAN :
           /\ task' = [task EXCEPT ![k] = AfterPush(err)]
           /\ iter' = Did(k, IF err THEN "Push: error" ELSE "Push: nil", 0)
    /\ UNCHANGED <<Running, lock, cpc, machine, lastReturned, doomed, config, flips>>

\* Warn + FinishWithError(event, err), or Finish(event)
LoopFinish(k) ==
    /\ task[k] \in {"finish_ok", "finish_err"}
    /\ task' = [task EXCEPT ![k] = "sleep"]
    /\ iter' = Did(k, FinishMarker(task[k] = "finish_err"), 0)
    /\ UNCHANGED <<Running, lock, cpc, machine, lastReturned, doomed, config, flips>>

\* time.Sleep(pub.IntervalMS) elapses
LoopSleep(k) ==
    /\ task[k] = "sleep"
    /\ task' = [task EXCEPT ![k] = AfterSleep]
    /\ iter' = Did(k, "Sleep", SleepFor(pub))
    /\ UNCHANGED <<Running, lock, cpc, machine, lastReturned, doomed, config, flips>>

TaskStep(k) ==
    \/ LoopCheck(k)
    \/ LoopPushBegin(k)
    \/ LoopPushReturn(k)
    \/ LoopFinish(k)
    \/ LoopSleep(k)

\* the steps of a call that is already under way
CallStep(t) ==
    \/ StartLock(t) \/ StartCheck(t) \/ StartGo(t) \/ StartUnlock(t)
    \/ StopLock(t) \/ StopCAS(t) \/ StopUnlock(t)
    \/ IsRunningReturn(t)
    \/ GetPusherLock(t) \/ GetPusherUnlock(t)
    \/ ManualPushBegin(t) \/ ManualPushEnd(t)

\* a caller issues a new call
NewCall(t) ==
    \/ StartCall(t) \/ StopCall(t) \/ IsRunning(t) \/ GetPusherCall(t)

Next ==
    \/ \E t \in Threads : NewCall(t)
    \/ \E t \in Threads : CallStep(t)
    \/ \E k \in Tasks : TaskStep(k)

Spec == Init /\ [][Next]_vars

\* The Go scheduler runs every runnable goroutine: a call under way and a
\* push loop keep taking steps. Callers are free never to issue a new call.
LiveSpec ==
    /\ Spec
    /\ \A t \in Threads : WF_vars(CallStep(t))
    /\ \A k \in Tasks : WF_vars(TaskStep(k))

\* pub.lock.Lock() of Start, Stop and GetPusher
LockStep(t) == StartLock(t) \/ StopLock(t) \/ GetPusherLock(t)

\* Callers are scheduled fairly; nothing is assumed about the push loops,
\* which may stall inside Push() or Sleep for ever.
FairCallSpec ==
    /\ Spec
    /\ \A t \in Threads : WF_vars(CallStep(t))

\* ---- construction and String() as steps ----

\* no call was made on the publisher yet
NoCalls ==
    /\ Running = FALSE
    /\ lock = NoThread
    /\ cpc = [t \in Threads |-> "idle"]
    /\ task = [k \in Tasks |-> "none"]
    /\ machine = "Stopped"
    /\ lastReturned = "none"
    /\ doomed = {}

\* pub, err := NewPushGatewayPusher(opts...)
Construct ==
    /\ newErr = "pending"
    /\ pub' = NewPushGatewayPusher(opts).pub
    /\ newErr' = NewPushGatewayPusher(opts).err
    /\ Running' = NewRunning
    /\ lock' = NoThread
    /\ UNCHANGED <<cpc, task, machine, lastReturned, doomed, iter, flips>>
    /\ UNCHANGED <<opts, snap, epc, server, aux>>

\* pub.String()
StringCall ==
    /\ pub # NilPub
    /\ snap' = String(pub, Running)
    /\ UNCHANGED <<Running, lock, cpc, task, machine, lastReturned, doomed, iter, flips>>
    /\ UNCHANGED <<opts, pub, newErr, epc, server, aux>>

\* The constructor applied to every combination of options.
CtorInit ==
    /\ NoCalls
    /\ opts \in OptionInputs
    /\ pub = NilPub
    /\ newErr = "pending"
    /\ snap = NoSnap
    /\ epc = "none"
    /\ server = "nil"
    /\ AuxInit

CtorNext == Construct \/ StringCall

CtorSpec == CtorInit /\ [][CtorNext]_vars

\* A publisher built from one of a few configurations and then used by the
\* goroutine that built it: calls on it, its push loops, and String() at any
\* point in between.
PubOptionInputs ==
    [IntervalMS : {<<>>, <<1>>},
     RemoteAddress : {<<"a">>},
     JobName : {<<>>, <<"j", "\"">>},
     Credential : {<<>>, <<"u", ":", "u">>},
     CertStore : {NoCert, [ServerCert |-> "pem", ClientPair |-> "junk"]}]

PubInit ==
    /\ NoCalls
    /\ opts \in PubOptionInputs
    /\ pub = NilPub
    /\ newErr = "pending"
    /\ snap = NoSnap
    /\ epc = "none"
    /\ server = "nil"
    /\ AuxInit

OwnerCall == pub # NilPub /\ NewCall(1)
OwnerStep == pub # NilPub /\ CallStep(1)
LoopStep(k) == pub # NilPub /\ TaskStep(k)

PubNext ==
    \/ Construct
    \/ StringCall
    \/ OwnerCall
    \/ OwnerStep
    \/ \E k \in Tasks : LoopStep(k)

PubSpec == PubInit /\ [][PubNext]_vars

\* ---- the push loop, iteration by iteration ----

\* the intervals a publisher can be built with
LoopIntervals == {<<>>} \cup {<<i>> : i \in 1..IntervalBound}

\* A publisher built with one of the valid intervals and used by the
\* goroutine that built it; what its push loops do is recorded.
LoopInit ==
    /\ NoCalls
    /\ opts \in {[DefaultOptions EXCEPT !.IntervalMS = i] : i \in LoopIntervals}
    /\ pub = NewPushGatewayPusher(opts).pub
    /\ newErr = NewPushGatewayPusher(opts).err
    /\ snap = NoSnap
    /\ epc = "none"
    /\ server = "nil"
    /\ pathOpt = <<>>
    /\ path = <<>>
    /\ gatherer = [bound |-> "DefaultGatherer", by |-> "push.New"]
    /\ registerer = {}
    /\ collectors = <<>>
    /\ regErr = <<"none">>
    /\ set = NoSet
    /\ prom = EmptyRegistry
    /\ msCall = NoCall
    /\ iter = Traced
    /\ flips = 0

LoopNext ==
    \/ NewCall(1)
    \/ CallStep(1)
    \/ \E k \in Tasks : TaskStep(k)

LoopSpec == LoopInit /\ [][LoopNext]_vars

\* ---- the PromEntry that owns a publisher ----

\* defaultPath
DefaultPath == <<"/", "m", "e", "t", "r", "i", "c", "s">>

PathInputs == {<<>>} \cup {<<p>> : p \in SeqsUpTo({" ", "/", "m"}, MaxPathLen)}

\* the struct literal of RegisterPromEntry followed by WithPath
AppliedPath(o) == IF o = <<>> THEN DefaultPath ELSE o[1]

\* RegisterPromEntry: trim, default for an invalid path, leading slash
NormalizePath_NoDefault(p) ==
    LET trimmed == TrimSpace(p)
    IN IF ~HasPrefix(trimmed, <<"/">>) THEN <<"/">> \o trimmed ELSE trimmed
NormalizePath(p) ==
    LET trimmed == TrimSpace(p)
        valid == IF Len(trimmed) < 1 THEN DefaultPath ELSE trimmed
    IN IF ~HasPrefix(valid, <<"/">>) THEN <<"/">> \o valid ELSE valid

\* The configurations an entry is registered with: a publisher that is
\* built, one whose construction fails, and (newErr = "disabled") none asked for.
EntryOptionInputs ==
    {DefaultOptions,
     [DefaultOptions EXCEPT !.JobName = <<>>],
     [DefaultOptions EXCEPT !.RemoteAddress = <<>>],
     [DefaultOptions EXCEPT !.IntervalMS = <<0>>],
     [DefaultOptions EXCEPT !.CertStore = [ServerCert |-> "pem", ClientPair |-> "pem"]]}

\* entry.Pusher != nil
HasPusher_Never(p) == FALSE
HasPusher_Always(p) == TRUE
HasPusher(p) == p # NilPub

\* RegisterPromEntriesWithConfig: pusher, _ = NewPushGatewayPusher(...) when
\* the pusher is enabled, then WithPusher(pusher)
\* entry.Gatherer when no registry is given: prometheus.DefaultGatherer
EntryGatherer == "DefaultGatherer"

\* a SetGatherer that drops its argument
SetGatherer_Ignored(p, g, bound) == bound

\* pub.SetGatherer(g) called by RegisterPromEntriesWithConfig, applied to
\* what the forwarder is bound to
SetGatherer(p, g, bound) ==
    IF p # NilPub
    THEN [bound |-> g, by |-> "RegisterPromEntriesWithConfig"]
    ELSE bound

RegisterPromEntry ==
    /\ epc = "register"
    /\ IF newErr = "pending"
       THEN /\ pub' = NewPushGatewayPusher(opts).pub
            /\ newErr' = NewPushGatewayPusher(opts).err
       ELSE UNCHANGED <<pub, newErr>>
    /\ path' = NormalizePath(AppliedPath(pathOpt))
    /\ gatherer' = IF HasPusher(pub')
                   THEN SetGatherer(pub', EntryGatherer, gatherer)
                   ELSE gatherer
    /\ epc' = "registered"
    /\ UNCHANGED <<Running, lock, cpc, task, machine, lastReturned, doomed, iter, flips>>
    /\ UNCHANGED <<opts, snap, server>>
    /\ UNCHANGED <<pathOpt, registerer, collectors, regErr, set, prom, msCall>>

\* Bootstrap: entry.Server = &http.Server{...}
BootstrapServer ==
    /\ epc \in {"registered", "interrupted"}
    /\ HasPusher(pub) => Launched < MaxTasks
    /\ server' = "created"
    /\ epc' = "boot_cert"
    /\ UNCHANGED <<Running, lock, cpc, task, machine, lastReturned, doomed, iter, flips>>
    /\ UNCHANGED <<opts, pub, newErr, snap, aux>>

\* Bootstrap: the server certificate, when there is one, parses or the
\* process is shut down (rkcommon.ShutdownWithError)
BootstrapCert ==
    /\ epc = "boot_cert"
    /\ \E certErr \in BOOLEAN :
           epc' = IF certErr THEN "exited" ELSE "boot_serve"
    /\ UNCHANGED <<Running, lock, cpc, task, machine, lastReturned, doomed, iter, flips>>
    /\ UNCHANGED <<opts, pub, newErr, snap, server, aux>>

\* Bootstrap: go func() { entry.Server.ListenAndServe() }
BootstrapServe ==
    /\ epc = "boot_serve"
    /\ server' = "serving"
    /\ epc' = "boot_pusher"
    /\ UNCHANGED <<Running, lock, cpc, task, machine, lastReturned, doomed, iter, flips>>
    /\ UNCHANGED <<opts, pub, newErr, snap, aux>>

\* the serving goroutine: ListenAndServe fails and shuts the process down
ServeFails ==
    /\ server = "serving"
    /\ epc # "exited"
    /\ epc' = "exited"
    /\ UNCHANGED <<Running, lock, cpc, task, machine, lastReturned, doomed, iter, flips>>
    /\ UNCHANGED <<opts, pub, newErr, snap, server, aux>>

\* Bootstrap: if entry.Pusher != nil { entry.Pusher.Start() }
BootstrapPusher ==
    /\ epc = "boot_pusher"
    /\ IF HasPusher(pub)
       THEN /\ cpc' = [cpc EXCEPT ![1] = "start_lock"]
            /\ epc' = "boot_in_start"
       ELSE /\ epc' = "booted"
            /\ UNCHANGED cpc
    /\ UNCHANGED <<Running, lock, task, machine, lastReturned, doomed, iter, flips>>
    /\ UNCHANGED <<opts, pub, newErr, snap, server, aux>>

\* Start has returned, and so does Bootstrap
BootstrapReturn ==
    /\ epc = "boot_in_start"
    /\ cpc[1] = "idle"
    /\ epc' = "booted"
    /\ UNCHANGED <<Running, lock, cpc, task, machine, lastReturned, doomed, iter, flips>>
    /\ UNCHANGED <<opts, pub, newErr, snap, server, aux>>

\* Interrupt: if entry.Pusher != nil { entry.Pusher.Stop() }
InterruptPusher ==
    /\ epc \in {"registered", "booted", "interrupted"}
    /\ IF HasPusher(pub)
       THEN /\ cpc' = [cpc EXCEPT ![1] = "stop_lock"]
            /\ epc' = "int_in_stop"
       ELSE /\ epc' = "int_server"
            /\ UNCHANGED cpc
    /\ UNCHANGED <<Running, lock, task, machine, lastReturned, doomed, iter, flips>>
    /\ UNCHANGED <<opts, pub, newErr, snap, server, aux>>

\* Stop has returned
InterruptAfterStop ==
    /\ epc = "int_in_stop"
    /\ cpc[1] = "idle"
    /\ epc' = "int_server"
    /\ UNCHANGED <<Running, lock, cpc, task, machine, lastReturned, doomed, iter, flips>>
    /\ UNCHANGED <<opts, pub, newErr, snap, server, aux>>

\* Interrupt: if entry.Server != nil { entry.Server.Shutdown(...) }
InterruptServer ==
    /\ epc = "int_server"
    /\ server' = IF server # "nil" THEN "closed" ELSE server
    /\ epc' = "interrupted"
    /\ UNCHANGED <<Running, lock, cpc, task, machine, lastReturned, doomed, iter, flips>>
    /\ UNCHANGED <<opts, pub, newErr, snap, aux>>

\* the steps of the Start or Stop the entry has called
EntryCallStep == epc \in {"boot_in_start", "int_in_stop"} /\ CallStep(1)
\* the push loops run until the process exits
EntryLoopStep(k) == epc # "exited" /\ TaskStep(k)

EntryInit ==
    /\ NoCalls
    /\ opts \in EntryOptionInputs
    /\ pub = NilPub
    /\ newErr \in {"pending", "disabled"}
    /\ snap = NoSnap
    /\ epc = "register"
    /\ server = "nil"
    /\ AuxInit

EntryNext ==
    \/ RegisterPromEntry
    \/ BootstrapServer
    \/ BootstrapCert
    \/ BootstrapServe
    \/ ServeFails
    \/ BootstrapPusher
    \/ BootstrapReturn
    \/ InterruptPusher
    \/ InterruptAfterStop
    \/ InterruptServer
    \/ EntryCallStep
    \/ \E k \in Tasks : EntryLoopStep(k)

EntrySpec == EntryInit /\ [][EntryNext]_vars

\* ---- the path of an entry ----

\* RegisterPromEntry(WithPath(entry.Path)): an entry registered with the
\* path another entry stores
ReRegisterPath ==
    /\ epc = "registered"
    /\ pathOpt' = <<path>>
    /\ path' = NormalizePath(AppliedPath(<<path>>))
    /\ UNCHANGED <<Running, lock, cpc, task, machine, lastReturned, doomed, iter, flips>>
    /\ UNCHANGED <<opts, pub, newErr, snap, epc, server>>
    /\ UNCHANGED <<gatherer, registerer, collectors, regErr, set, prom, msCall>>

\* Entries without a pusher, registered with every path.
PathInit ==
    /\ NoCalls
    /\ opts = DefaultOptions
    /\ pub = NilPub
    /\ newErr = "disabled"
    /\ snap = NoSnap
    /\ epc = "register"
    /\ server = "nil"
    /\ pathOpt \in PathInputs
    /\ path = <<>>
    /\ gatherer = [bound |-> "DefaultGatherer", by |-> "push.New"]
    /\ registerer = {}
    /\ collectors = <<>>
    /\ regErr = <<"none">>
    /\ set = NoSet
    /\ prom = EmptyRegistry
    /\ msCall = NoCall
    /\ iter = NotTraced
    /\ flips = 0

PathNext == RegisterPromEntry \/ ReRegisterPath

PathSpec == PathInit /\ [][PathNext]_vars

\* ---- RegisterCollectors ----

Collectors == {"c1", "c2", "c3"}
CollectorArgs == SeqsUpTo(Collectors, MaxCollectors)
NilErr == <<>>

\* prometheus.Registerer.Register on the collectors reg: a collector that
\* is registered already is refused
Register(reg, c) ==
    IF c \in reg
    THEN [reg |-> reg, err |-> <<"AlreadyRegisteredError", c>>]
    ELSE [reg |-> reg \cup {c}, err |-> NilErr]

\* the loop of RegisterCollectors over cs, from registerer reg and error err
RECURSIVE RegisterEach_StopAtFailure(_, _, _)
RegisterEach_StopAtFailure(reg, cs, err) ==
    IF cs = <<>>
    THEN [reg |-> reg, err |-> err]
    ELSE LET r == Register(reg, Head(cs))
         IN IF r.err # NilErr
            THEN [reg |-> r.reg, err |-> r.err]
            ELSE RegisterEach_StopAtFailure(r.reg, Tail(cs), err)
RECURSIVE RegisterEach(_, _, _)
RegisterEach(reg, cs, err) ==
    IF cs = <<>>
    THEN [reg |-> reg, err |-> err]
    ELSE LET r == Register(reg, Head(cs))
         IN RegisterEach(r.reg, Tail(cs), IF r.err # NilErr THEN r.err ELSE err)

\* entry.RegisterCollectors(cs...)
RegisterCollectors ==
    /\ epc = "registered"
    /\ \E cs \in CollectorArgs :
           LET r == RegisterEach(registerer, cs, NilErr)
           IN /\ collectors' = cs
              /\ registerer' = r.reg
              /\ regErr' = r.err
    /\ UNCHANGED <<Running, lock, cpc, task, machine, lastReturned, doomed, iter, flips>>
    /\ UNCHANGED <<opts, pub, newErr, snap, epc, server>>
    /\ UNCHANGED <<pathOpt, path, gatherer, set, prom, msCall>>

\* An entry on a registerer that may hold a collector already, the way the
\* default registerer holds the Go collector.
CollectorsInit ==
    /\ NoCalls
    /\ opts = DefaultOptions
    /\ pub = NilPub
    /\ newErr = "disabled"
    /\ snap = NoSnap
    /\ epc = "register"
    /\ server = "nil"
    /\ pathOpt = <<>>
    /\ path = <<>>
    /\ gatherer = [bound |-> "DefaultGatherer", by |-> "push.New"]
    /\ registerer \in {{}, {"c3"}}
    /\ collectors = <<>>
    /\ regErr = <<"none">>
    /\ set = NoSet
    /\ prom = EmptyRegistry
    /\ msCall = NoCall
    /\ iter = NotTraced
    /\ flips = 0

CollectorsNext == RegisterPromEntry \/ RegisterCollectors

CollectorsSpec == CollectorsInit /\ [][CollectorsNext]_vars

\* ---- the MetricsSet ----

maxKeyLength == 128
separator == <<":", ":">>
namespaceDefault == <<"r", "k">>
subSystemDefault == <<"s", "e", "r", "v", "i", "c", "e">>

Kinds == {"counter", "gauge", "summary", "histogram"}
LabelInputs == {<<>>, <<"l">>}
\* one character more than validateRawName accepts
LongName == [i \in 1..(maxKeyLength + 1) |-> "a"]
NameInputs == {<<>>, <<" ">>, <<"a">>, <<" ", "a", " ">>, LongName}
NamespaceInputs == {<<>>, <<"n">>}

NoMap == <<>>

\* a Go map as a function: m[k] = v, delete(m, k)
MapPut(m, k, v) == [x \in DOMAIN m \cup {k} |-> IF x = k THEN v ELSE m[x]]
MapDelete(m, k) == [x \in DOMAIN m \ {k} |-> m[x]]
\* m[k], the zero value (a nil pointer) when k is not a key
MapGet(m, k) == IF k \in DOMAIN m THEN m[k] ELSE NilVec

NewMetricsSet(namespace, subSystem) ==
    [namespace |-> IF Len(namespace) < 1 THEN namespaceDefault ELSE namespace,
     subSystem |-> IF Len(subSystem) < 1 THEN subSystemDefault ELSE subSystem,
     keys |-> {},
     counters |-> NoMap,
     gauges |-> NoMap,
     summaries |-> NoMap,
     histograms |-> NoMap]

\* the map of the set that holds the metrics of a kind
VecsOf(s, kind) ==
    CASE kind = "counter" -> s.counters
      [] kind = "gauge" -> s.gauges
      [] kind = "summary" -> s.summaries
      [] kind = "histogram" -> s.histograms

WithVecs(s, kind, m) ==
    CASE kind = "counter" -> [s EXCEPT !.counters = m]
      [] kind = "gauge" -> [s EXCEPT !.gauges = m]
      [] kind = "summary" -> [s EXCEPT !.summaries = m]
      [] kind = "histogram" -> [s EXCEPT !.histograms = m]

getKey(s, name) == s.namespace \o separator \o s.subSystem \o separator \o name
containsKey_Never(s, key) == FALSE
containsKey(s, key) == key \in s.keys

validateRawName_NoMaxLength(name) ==
    IF Len(name) < 1 THEN "empty counter name"
    ELSE "nil"
validateRawName(name) ==
    IF Len(name) < 1 THEN "empty counter name"
    ELSE IF Len(name) > maxKeyLength THEN "exceed max name length"
    ELSE "nil"

\* prometheus.NewCounterVec and the like: the fully-qualified name, and the
\* help string and label names the registry keeps consistent per name
NewVec(s, kind, name, labelKeys) ==
    [fqName |-> s.namespace \o <<"_">> \o s.subSystem \o <<"_">> \o name,
     kind |-> kind,
     help |-> <<kind, name, labelKeys>>,
     labels |-> labelKeys]

DimHash(vec) == <<vec.help, vec.labels>>

\* prometheus.Register on the default registry
PromRegister(reg, vec) ==
    IF \E d \in reg.dimHashesByName : d[1] = vec.fqName /\ d[2] # DimHash(vec)
    THEN [reg |-> reg, err |-> "different label names or help string"]
    ELSE IF \E c \in reg.collectorsByID : c.fqName = vec.fqName
    THEN [reg |-> reg, err |-> "AlreadyRegisteredError"]
    ELSE [reg |-> [collectorsByID |-> reg.collectorsByID \cup {vec},
                   dimHashesByName |->
                       reg.dimHashesByName \cup {<<vec.fqName, DimHash(vec)>>}],
          err |-> "nil"]

\* prometheus.Unregister: dimHashesByName is kept for the life of the program
PromUnregister(reg, vec) ==
    [reg EXCEPT !.collectorsByID = reg.collectorsByID \ {vec}]

\* RegisterCounter / RegisterGauge / RegisterSummary / RegisterHistogram:
\* the set, the registry and the error after the call
RegisterResult_RecordsRejected(s, reg, kind, rawName, labelKeys) ==
    LET name == TrimSpace(rawName)
        key == getKey(s, name)
        vec == NewVec(s, kind, name, labelKeys)
        r == PromRegister(reg, vec)
    IN IF validateRawName(name) # "nil"
       THEN [set |-> s, prom |-> reg, ret |-> validateRawName(name)]
       ELSE IF containsKey(s, key)
       THEN [set |-> s, prom |-> reg, ret |-> "duplicate metrics"]
       ELSE IF r.err = "nil"
       THEN [set |-> [WithVecs(s, kind, MapPut(VecsOf(s, kind), key, vec))
                         EXCEPT !.keys = s.keys \cup {key}],
             prom |-> r.reg,
             ret |-> "nil"]
       ELSE [set |-> [WithVecs(s, kind, MapPut(VecsOf(s, kind), key, vec))
                         EXCEPT !.keys = s.keys \cup {key}],
             prom |-> reg,
             ret |-> r.err]
RegisterResult(s, reg, kind, rawName, labelKeys) ==
    LET name == TrimSpace(rawName)
        key == getKey(s, name)
        vec == NewVec(s, kind, name, labelKeys)
        r == PromRegister(reg, vec)
    IN IF validateRawName(name) # "nil"
       THEN [set |-> s, prom |-> reg, ret |-> validateRawName(name)]
       ELSE IF containsKey(s, key)
       THEN [set |-> s, prom |-> reg, ret |-> "duplicate metrics"]
       ELSE IF r.err = "nil"
       THEN [set |-> [WithVecs(s, kind, MapPut(VecsOf(s, kind), key, vec))
                         EXCEPT !.keys = s.keys \cup {key}],
             prom |-> r.reg,
             ret |-> "nil"]
       ELSE [set |-> s, prom |-> reg, ret |-> r.err]

\* UnRegisterCounter / UnRegisterGauge / UnRegisterSummary /
\* UnRegisterHistogram. When the key is held by a metric of another kind the
\* map of this kind yields a nil pointer, and prometheus.Unregister calls
\* Describe on it: the process panics.
UnRegisterResult_KeepsKey(s, reg, kind, rawName) ==
    LET name == TrimSpace(rawName)
        key == getKey(s, name)
        vec == MapGet(VecsOf(s, kind), key)
    IN IF validateRawName(name) # "nil"
       THEN [set |-> s, prom |-> reg, ret |-> validateRawName(name)]
       ELSE IF ~containsKey(s, key)
       THEN [set |-> s, prom |-> reg, ret |-> "nil"]
       ELSE IF vec = NilVec
       THEN [set |-> s, prom |-> reg, ret |-> "panic"]
       ELSE [set |-> WithVecs(s, kind, MapDelete(VecsOf(s, kind), key)),
             prom |-> PromUnregister(reg, vec),
             ret |-> "nil"]
UnRegisterResult(s, reg, kind, rawName) ==
    LET name == TrimSpace(rawName)
        key == getKey(s, name)
        vec == MapGet(VecsOf(s, kind), key)
    IN IF validateRawName(name) # "nil"
       THEN [set |-> s, prom |-> reg, ret |-> validateRawName(name)]
       ELSE IF ~containsKey(s, key)
       THEN [set |-> s, prom |-> reg, ret |-> "nil"]
       ELSE IF vec = NilVec
       THEN [set |-> s, prom |-> reg, ret |-> "panic"]
       ELSE [set |-> [WithVecs(s, kind, MapDelete(VecsOf(s, kind), key))
                         EXCEPT !.keys = s.keys \ {key}],
             prom |-> PromUnregister(reg, vec),
             ret |-> "nil"]

\* GetCounterVec / GetGaugeVec / GetSummaryVec / GetHistogramVec
GetVec(s, kind, rawName) ==
    LET name == TrimSpace(rawName)
        key == getKey(s, name)
    IN IF validateRawName(name) # "nil"
       THEN NilVec
       ELSE IF containsKey(s, key)
       THEN MapGet(VecsOf(s, kind), key)
       ELSE NilVec

\* the process is up: no call has panicked
Up == msCall.ret # "panic"

NewMetricsSetCall ==
    /\ set = NoSet
    /\ \E namespace \in NamespaceInputs :
           set' = NewMetricsSet(namespace, <<>>)
    /\ UNCHANGED <<Running, lock, cpc, task, machine, lastReturned, doomed, iter, flips>>
    /\ UNCHANGED <<opts, pub, newErr, snap, epc, server>>
    /\ UNCHANGED <<pathOpt, path, gatherer, registerer, collectors, regErr, prom, msCall>>

RegisterMetric ==
    /\ set # NoSet /\ Up
    /\ \E kind \in Kinds, name \in NameInputs, labelKeys \in LabelInputs :
           LET r == RegisterResult(set, prom, kind, name, labelKeys)
           IN /\ set' = r.set
              /\ prom' = r.prom
              /\ msCall' = [op |-> "Register", kind |-> kind, name |-> name,
                            labelKeys |-> labelKeys, ret |-> r.ret, vec |-> NilVec]
    /\ UNCHANGED <<Running, lock, cpc, task, machine, lastReturned, doomed, iter, flips>>
    /\ UNCHANGED <<opts, pub, newErr, snap, epc, server>>
    /\ UNCHANGED <<pathOpt, path, gatherer, registerer, collectors, regErr>>

UnRegisterMetric ==
    /\ set # NoSet /\ Up
    /\ \E kind \in Kinds, name \in NameInputs :
           LET r == UnRegisterResult(set, prom, kind, name)
           IN /\ set' = r.set
              /\ prom' = r.prom
              /\ msCall' = [op |-> "UnRegister", kind |-> kind, name |-> name,
                            labelKeys |-> <<>>, ret |-> r.ret, vec |-> NilVec]
    /\ UNCHANGED <<Running, lock, cpc, task, machine, lastReturned, doomed, iter, flips>>
    /\ UNCHANGED <<opts, pub, newErr, snap, epc, server>>
    /\ UNCHANGED <<pathOpt, path, gatherer, registerer, collectors, regErr>>

GetMetricVec ==
    /\ set # NoSet /\ Up
    /\ \E kind \in Kinds, name \in NameInputs :
           msCall' = [op |-> "Get", kind |-> kind, name |-> name,
                      labelKeys |-> <<>>, ret |-> "nil", vec |-> GetVec(set, kind, name)]
    /\ UNCHANGED <<Running, lock, cpc, task, machine, lastReturned, doomed, iter, flips>>
    /\ UNCHANGED <<opts, pub, newErr, snap, epc, server>>
    /\ UNCHANGED <<pathOpt, path, gatherer, registerer, collectors, regErr, set, prom>>

\* the default registry after another metrics set, built with the default
\* namespace and subsystem, has registered the counter "a"
OtherSetRegistry ==
    PromRegister(EmptyRegistry,
                 NewVec(NewMetricsSet(<<>>, <<>>), "counter", <<"a">>, <<>>)).reg

RegistryInputs == {EmptyRegistry, OtherSetRegistry}

MetricsInit ==
    /\ NoCalls
    /\ opts = DefaultOptions
    /\ pub = NilPub
    /\ newErr = "disabled"
    /\ snap = NoSnap
    /\ epc = "none"
    /\ server = "nil"
    /\ pathOpt = <<>>
    /\ path = <<>>
    /\ gatherer = [bound |-> "DefaultGatherer", by |-> "push.New"]
    /\ registerer = {}
    /\ collectors = <<>>
    /\ regErr = <<"none">>
    /\ set = NoSet
    /\ prom \in RegistryInputs
    /\ msCall = NoCall
    /\ iter = NotTraced
    /\ flips = 0

MetricsNext ==
    \/ NewMetricsSetCall
    \/ RegisterMetric
    \/ UnRegisterMetric
    \/ GetMetricVec

MetricsSpec == MetricsInit /\ [][MetricsNext]_vars

\* ======================= properties =======================

\* tasks launched since the running flag last went from false to true
CurrentTasks == Alive(task) \ doomed

\* a Stop is past its CAS but has not returned yet
StopTookEffect == \E t \in Threads : cpc[t] = "stop_unlock"

\* a Start is past its CAS but has not returned yet
StartTookEffect == \E t \in Threads : cpc[t] \in {"start_go", "start_unlock"}

AtMostOneTaskAlive == Cardinality(Alive(task)) <= 1

\* C3: at most one push (loop push or manual push through the forwarder)
\* is in progress at any time.
AtMostOnePushInFlight ==
    Cardinality({k \in Tasks : task[k] = "pushing"})
        + Cardinality({t \in Threads : cpc[t] = "manual_push"}) <= 1

\* C4: bounded-latency shutdown. A task that was alive when Stop cleared the
\* flag terminates at its next check of the flag, whatever is scheduled after
\* the Stop.
BoundedLatencyShutdown ==
    [][\A k \in Tasks :
        (k \in doomed /\ task[k] = "check" /\ task'[k] # "check")
            => task'[k] = "done"]_vars

\* C5: the flag flips synchronously. IsRunning answers true when a Start was
\* the last call to return and false when a Stop was, unless the opposite call
\* has meanwhile taken effect; the positions of the tasks play no part.
FlagFlipsSynchronously ==
    [][\A t \in Threads :
        IsRunning(t) =>
            /\ (lastReturned = "Start" /\ ~StopTookEffect)
                    => cpc'[t] = "isrunning_true"
            /\ (lastReturned = "Stop" /\ ~StartTookEffect)
                    => cpc'[t] = "isrunning_false"]_vars

\* one caller saw true after Start, another sees false right after Stop
\* while a task is still in the middle of a push
FlagFlipsSynchronouslyWitness ==
    \E t1, t2 \in Threads :
        /\ cpc[t1] = "isrunning_true"
        /\ cpc[t2] = "isrunning_false"
        /\ lastReturned = "Stop"
        /\ \E k \in Tasks : task[k] = "pushing"

\* C6: Stop on a publisher whose flag is false is a no-op. Every step of such
\* a Stop call leaves the flag false, launches and ends no task and moves no
\* other caller.
StopWhenStoppedIsNoOp ==
    [][\A t \in Threads :
        (cpc[t] \in {"stop_lock", "stop_cas", "stop_unlock"}
            /\ cpc'[t] # cpc[t] /\ ~Running)
            => /\ Running' = FALSE
               /\ task' = task
               /\ doomed' = doomed
               /\ machine' = machine
               /\ cpc'[t] \in {"stop_cas", "stop_unlock", "idle"}
               /\ \A u \in Threads \ {t} : cpc'[u] = cpc[u]]_vars

\* a Stop that follows an earlier Stop has passed its CAS on a false flag
StopWhenStoppedWitness ==
    \E t \in Threads :
        /\ cpc[t] = "stop_unlock"
        /\ lastReturned = "Stop"
        /\ ~Running
        /\ Launched >= 1

\* C7: a failed push never stops the publisher. The return of Push(), failed
\* or not, changes neither the flag nor any caller and leaves the task alive;
\* the task then sleeps, re-checks the flag and pushes again while the flag is
\* true; a task ends only by reading the flag as false.
FailedPushKeepsRunning ==
    [][\A k \in Tasks :
        /\ (task[k] = "pushing" /\ task'[k] # "pushing")
            => /\ task'[k] \in {"finish_ok", "finish_err"}
               /\ UNCHANGED <<Running, cpc, lock>>
        /\ (task[k] = "finish_err" /\ task'[k] # "finish_err")
            => /\ task'[k] = "sleep"
               /\ UNCHANGED <<Running, cpc, lock>>
        /\ (task[k] = "sleep" /\ task'[k] # "sleep") => task'[k] = "check"
        /\ (task[k] = "check" /\ Running /\ task'[k] # "check")
            => task'[k] = "event"
        /\ (task[k] # "done" /\ task'[k] = "done")
            => (task[k] = "check" /\ ~Running)]_vars

\* a push has just failed: the flag is still true and the task alive
FailedPushWitness ==
    \E k \in Tasks : task[k] = "finish_err" /\ Running

\* C8: after a Stop that no Start follows (the flag stays false for good),
\* every background task eventually terminates and none pushes again.
PushingCeasesAfterStop ==
    <>[](~Running) => <>[](Alive(task) = {})

\* stopped for good: tasks were launched and all have returned
PushingCeasedWitness ==
    /\ ~Running
    /\ lastReturned = "Stop"
    /\ Launched >= 1
    /\ Alive(task) = {}

\* C9: the flag and mutex implement the machine {Stopped, Running}. The
\* machine takes the transition of each Start or Stop call when the call gets
\* the mutex; outside the window between a call's Lock and its flag operation
\* the flag is true exactly when the machine is in Running.
MachineEquivalence ==
    (\A t \in Threads : cpc[t] \notin {"start_load", "stop_cas"})
        => (Running <=> machine = "Running")

\* the machine went Stopped -> Running -> Stopped together with the flag
MachineEquivalenceWitness ==
    /\ machine = "Stopped"
    /\ ~Running
    /\ lastReturned = "Stop"
    /\ Launched >= 1
    /\ lock = NoThread

\* C10: periodic pushing is live. If the flag is set and never cleared again,
\* pushes are performed infinitely often.
PeriodicPushIsLive ==
    <>[]Running => []<>(\E k \in Tasks : task[k] = "pushing")

\* a task launched by Start is inside Push() while the flag is true
PeriodicPushWitness ==
    /\ Running
    /\ lastReturned = "Start"
    /\ \E k \in Tasks : task[k] = "pushing"

\* the positions in which a caller holds the mutex
HoldsLock == {"start_load", "start_go", "start_unlock",
              "stop_cas", "stop_unlock", "get_unlock"}

\* the positions in which a caller waits for the mutex
WaitsForLock == {"start_lock", "stop_lock", "get_lock"}

\* C11: no lifecycle call deadlocks or blocks on the loop. Whatever the push
\* loops do, even if they never take another step, every critical section
\* ends and the guard becomes free again, and a caller waiting for the guard
\* is held up by nothing but the guard; IsRunning can always run and leaves
\* the guard alone; no step of the loop touches the guard; the guard is held
\* only by a caller inside its critical section, hence never by a Start that
\* has returned.
NoCallBlocks ==
    /\ (lock # NoThread) ~> (lock = NoThread)
    /\ [](\A t \in Threads :
            (cpc[t] \in WaitsForLock /\ lock = NoThread) => ENABLED LockStep(t))
    /\ [](\A t \in Threads : cpc[t] = "idle" => ENABLED IsRunning(t))
    /\ [][\A t \in Threads : IsRunning(t) => lock' = lock]_vars
    /\ [][\A k \in Tasks : TaskStep(k) => lock' = lock]_vars
    /\ [](\A t \in Threads : (lock = t) <=> (cpc[t] \in HoldsLock))

\* a caller waits for the mutex that another caller holds inside Start, while
\* a task is in the middle of a push
NoCallBlocksWitness ==
    \E t1, t2 \in Threads :
        /\ cpc[t1] \in {"stop_lock", "start_lock", "get_lock"}
        /\ cpc[t2] = "start_unlock"
        /\ lock = t2
        /\ \E k \in Tasks : task[k] \in {"pushing", "sleep"}

\* ---- the constructor ----

\* NewPushGatewayPusher has returned
Returned == newErr # "pending"
Succeeded == pub # NilPub /\ newErr = NoError
Failed == pub = NilPub /\ newErr \notin {"pending", NoError}

\* the interval, the address and the job name pass validation
IntervalGiven(i) == opts.IntervalMS = <<i>>
ValidInterval == opts.IntervalMS = <<>> \/ \E i \in 1..IntervalBound : IntervalGiven(i)
NonEmptyNames == opts.RemoteAddress # <<>> /\ opts.JobName # <<>>

\* C12: with a non-empty address and job name, construction fails (nil
\* publisher, non-nil error) for every interval <= 0 and succeeds for every
\* interval >= 1 of the minimum time unit.
IntervalValidation ==
    (Returned /\ NonEmptyNames) =>
        \A i \in (0 - IntervalBound)..IntervalBound :
            /\ (IntervalGiven(i) /\ i <= 0) => Failed
            /\ (IntervalGiven(i) /\ i >= 1) => Succeeded

IntervalValidationWitness ==
    /\ Returned /\ NonEmptyNames
    /\ IntervalGiven(0)
    /\ Failed

\* C13: with a valid interval, construction fails (nil publisher, non-nil
\* error) whenever the remote address or the job name is the empty string,
\* also when a certificate bundle is supplied, and succeeds for every
\* non-empty address and job name.
AddressJobValidation ==
    (Returned /\ ValidInterval) =>
        /\ (opts.RemoteAddress = <<>> \/ opts.JobName = <<>>) => Failed
        /\ NonEmptyNames => Succeeded

AddressJobValidationWitness ==
    /\ Returned /\ ValidInterval
    /\ opts.CertStore # NoCert
    /\ opts.RemoteAddress = <<>>
    /\ opts.JobName # <<>>
    /\ Failed

\* some caller has entered Start
StartInvoked ==
    \/ \E t \in Threads :
           cpc[t] \in {"start_lock", "start_load", "start_go", "start_unlock"}
    \/ lastReturned = "Start"
    \/ Launched > 0

Colons(cred) == Cardinality({i \in 1..Len(cred) : cred[i] = ":"})

\* C15: for every credential string construction never fails because of it,
\* and basic auth is applied to the forwarder exactly when the trimmed
\* credential splits on ':' into exactly two tokens (each possibly empty),
\* which then are the user name and the password; a credential with no
\* colon or with two or more colons leaves the publisher without
\* authentication.
BasicAuthHandling ==
    (Returned /\ ValidInterval /\ NonEmptyNames) =>
        LET tokens == Split(TrimSpace(opts.Credential), ":")
        IN /\ Succeeded
           /\ (pub.Pusher.auth # NoAuth) <=> (Len(tokens) = 2)
           /\ (pub.Pusher.auth # NoAuth) <=> (Colons(opts.Credential) = 1)
           /\ (pub.Pusher.auth # NoAuth) =>
                  /\ pub.Pusher.auth.username = tokens[1]
                  /\ pub.Pusher.auth.password = tokens[2]
                  /\ tokens[1] \o <<":">> \o tokens[2] = TrimSpace(opts.Credential)

BasicAuthHandlingWitness ==
    /\ Succeeded
    /\ opts.Credential = <<"u", ":", ":">>
    /\ pub.Pusher.auth = NoAuth

\* C16: for every non-empty input address a, with a certificate bundle the
\* resolved address is a itself when a starts with "https://", and
\* "https://" prepended to the whole of a otherwise (an existing "http://"
\* prefix is kept, not replaced), so it always starts with "https://";
\* without a certificate bundle the resolved address equals a. The
\* forwarder is bound to the resolved address.
AddressNormalization ==
    Succeeded =>
        LET a == opts.RemoteAddress
            resolved == pub.RemoteAddress
        IN /\ (opts.CertStore # NoCert /\ HasPrefix(a, HTTPS)) => resolved = a
           /\ (opts.CertStore # NoCert /\ ~HasPrefix(a, HTTPS)) =>
                  /\ resolved = HTTPS \o a
                  /\ SubSeq(resolved, Len(HTTPS) + 1, Len(resolved)) = a
           /\ opts.CertStore # NoCert => HasPrefix(resolved, HTTPS)
           /\ opts.CertStore = NoCert => resolved = a
           /\ pub.Pusher.url = resolved

AddressNormalizationWitness ==
    /\ Succeeded
    /\ opts.CertStore # NoCert
    /\ opts.RemoteAddress = HTTP \o <<"a">>
    /\ pub.RemoteAddress = HTTPS \o HTTP \o <<"a">>

\* C17: a certificate bundle never makes construction fail. For every
\* bundle content, an unparsable server certificate and an unparsable client
\* certificate/key pair included, the constructor given otherwise valid
\* options returns a publisher and no error, with a TLS transport that
\* carries the client certificate only when the pair parses.
CertNeverFailsConstruction ==
    (Returned /\ ValidInterval /\ NonEmptyNames /\ opts.CertStore # NoCert) =>
        /\ Succeeded
        /\ pub.Pusher.tls # NoTLS
        /\ pub.Pusher.tls.Certificates <=> (opts.CertStore.ClientPair = "pem")
        /\ pub.Pusher.tls.RootCAs <=> (opts.CertStore.ServerCert = "pem")

CertNeverFailsWitness ==
    /\ Succeeded
    /\ opts.CertStore = [ServerCert |-> "junk", ClientPair |-> "junk"]
    /\ pub.Pusher.tls # NoTLS
    /\ ~pub.Pusher.tls.Certificates

\* ---- String() ----

\* what a reader of the JSON text gets back from a string member: the
\* characters between the quotes, escapes undone
RECURSIVE JSONUnescape(_)
JSONUnescape(s) ==
    IF s = <<>> \/ Head(s) = "\"" THEN <<>>
    ELSE IF Head(s) = "\\" /\ Len(s) >= 6 /\ s[2] = "u"
    THEN <<"&">> \o JSONUnescape(SubSeq(s, 7, Len(s)))
    ELSE IF Head(s) = "\\" /\ Len(s) >= 2
    THEN <<s[2]>> \o JSONUnescape(SubSeq(s, 3, Len(s)))
    ELSE <<Head(s)>> \o JSONUnescape(Tail(s))

JSONDecode(text) == JSONUnescape(Tail(text))

\* C18: at any point of the lifecycle the String() snapshot reports the
\* interval, the remote address and the job name exactly as passed at
\* construction (the address as resolved) together with the value the
\* running flag has when String() is called.
StatusRoundTrip ==
    /\ [](snap # NoSnap =>
            /\ \A i \in 1..IntervalBound : IntervalGiven(i) => snap.IntervalMS = i
            /\ opts.IntervalMS = <<>> => snap.IntervalMS = DefaultIntervalMS
            /\ JSONDecode(snap.RemoteAddress) = pub.RemoteAddress
            /\ opts.CertStore = NoCert =>
                   JSONDecode(snap.RemoteAddress) = opts.RemoteAddress
            /\ JSONDecode(snap.JobName) = opts.JobName)
    /\ [][snap' # snap => snap'.Running = Running]_vars

StatusRoundTripWitness ==
    /\ snap # NoSnap
    /\ snap.Running
    /\ ~Running
    /\ opts.JobName = <<"j", "\"">>
    /\ opts.CertStore # NoCert
    /\ IntervalGiven(1)

\* C19: the status snapshot never exposes the credential. Two publishers
\* built from identical options except for the basic-auth credential
\* produce identical String() output: the snapshot of this publisher is the
\* snapshot of the publisher built with any other credential.
CredentialNotExposed ==
    snap # NoSnap =>
        \A c \in CredentialInputs :
            snap = String(NewPushGatewayPusher([opts EXCEPT !.Credential = c]).pub,
                          snap.Running)

\* ---- the entry ----

\* C20: for an entry holding a publisher, the running flag is true once
\* Bootstrap has returned and false once Interrupt has returned, and
\* Interrupt stops the publisher before it shuts the HTTP server down: at
\* the Shutdown the Stop has returned and the flag is false. For an entry
\* without a publisher neither Bootstrap nor Interrupt ever starts a push
\* task or touches the flag.
EntryWiring ==
    /\ []((epc = "booted" /\ pub # NilPub) => Running)
    /\ []((epc \in {"int_server", "interrupted"} /\ pub # NilPub) =>
            /\ ~Running
            /\ lastReturned = "Stop")
    /\ [][(epc = "int_server" /\ epc' = "interrupted" /\ pub # NilPub) =>
            /\ ~Running
            /\ lastReturned = "Stop"
            /\ cpc[1] = "idle"
            /\ server # "nil" => server' = "closed"]_vars
    /\ []((epc \notin {"register"} /\ pub = NilPub) =>
            /\ \A k \in Tasks : task[k] = "none"
            /\ \A t \in Threads : cpc[t] = "idle"
            /\ ~Running)

EntryWiringWitness ==
    /\ epc = "interrupted"
    /\ pub # NilPub
    /\ server = "closed"
    /\ Launched = MaxTasks
    /\ ~Running

\* C21: for every input path the stored path is non-empty and starts with
\* "/"; it is the default "/metrics" when the trimmed input is empty, the
\* trimmed input when that already starts with "/", and "/" plus the
\* trimmed input otherwise; normalizing an already normalized path changes
\* nothing.
PathNormalization ==
    /\ [](epc = "registered" =>
            LET trimmed == TrimSpace(AppliedPath(pathOpt))
            IN /\ path # <<>>
               /\ Head(path) = "/"
               /\ trimmed = <<>> => path = DefaultPath
               /\ (trimmed # <<>> /\ Head(trimmed) = "/") => path = trimmed
               /\ (trimmed # <<>> /\ Head(trimmed) # "/") => path = <<"/">> \o trimmed)
    /\ [][epc = "registered" => path' = path]_vars

PathNormalizationWitness ==
    /\ epc = "registered"
    /\ pathOpt = << <<"/", "m", " ", "m">> >>
    /\ path = <<"/", "m", " ", "m">>

\* ---- RegisterCollectors ----

\* the positions of cs whose collector is registered before or given earlier
Refused(reg, cs) ==
    {i \in 1..Len(cs) : cs[i] \in reg \/ \E j \in 1..(i - 1) : cs[j] = cs[i]}

\* C22: RegisterCollectors returns nil when every given collector is newly
\* registered and a non-nil error when any of them is already registered
\* with the entry's registerer; a failing collector does not prevent the
\* remaining collectors of the same call from being registered, and the
\* error returned is that of the last failure.
RegisterCollectorsResult ==
    [][(collectors' # collectors \/ regErr' # regErr \/ registerer' # registerer) =>
          LET refused == Refused(registerer, collectors')
          IN /\ registerer' = registerer \cup {collectors'[i] : i \in 1..Len(collectors')}
             /\ (regErr' = NilErr) <=> (refused = {})
             /\ refused # {} =>
                    \E i \in refused :
                        /\ \A j \in refused : j <= i
                        /\ regErr' = <<"AlreadyRegisteredError", collectors'[i]>>]_vars

RegisterCollectorsWitness ==
    /\ collectors = <<"c3", "c1">>
    /\ regErr = <<"AlreadyRegisteredError", "c3">>
    /\ registerer = {"c1", "c3"}

\* ---- MetricsSet ----

\* the key namespace::subsystem::name a call on the set s is about
KeyOf(s, rawName) == getKey(s, TrimSpace(rawName))

\* the kinds whose map of the set s holds the key
Holders(s, key) == {k \in Kinds : key \in DOMAIN VecsOf(s, k)}

\* C23: metrics-set keys are unique: RegisterCounter, RegisterGauge,
\* RegisterSummary and RegisterHistogram fail with a duplicate error whenever
\* the key namespace::subsystem::name is already present in the set, whatever
\* kind of metric holds it, and then leave the set and the registry
\* unchanged; so every key of the set is held by exactly one kind.
KeysUnique ==
    /\ []((set # NoSet /\ Up) =>
            /\ \A key \in set.keys : Cardinality(Holders(set, key)) = 1
            /\ \A k \in Kinds : DOMAIN VecsOf(set, k) \subseteq set.keys)
    /\ [][(msCall'.op = "Register" /\ KeyOf(set, msCall'.name) \in set.keys) =>
             /\ msCall'.ret = "duplicate metrics"
             /\ set' = set
             /\ prom' = prom]_vars

KeysUniqueWitness ==
    /\ msCall.op = "Register"
    /\ msCall.kind = "gauge"
    /\ msCall.ret = "duplicate metrics"
    /\ Holders(set, KeyOf(set, msCall.name)) = {"counter"}

\* the cases of an UnRegister step; the later Register is one with any label
\* keys (anyLabels) or with the label keys of the metric that was removed
UnRegisterStep(anyLabels) ==
    msCall'.op = "UnRegister" =>
        LET kind == msCall'.kind
            name == TrimSpace(msCall'.name)
            key == getKey(set, name)
            held == MapGet(VecsOf(set, kind), key)
        IN /\ msCall'.ret \notin {"nil", "panic"} => validateRawName(name) # "nil"
           /\ (validateRawName(name) = "nil" /\ key \notin set.keys) =>
                  /\ msCall'.ret = "nil"
                  /\ set' = set
                  /\ prom' = prom
           /\ (validateRawName(name) = "nil" /\ held # NilVec) =>
                  /\ msCall'.ret = "nil"
                  /\ key \notin set'.keys
                  /\ GetVec(set', kind, name) = NilVec
                  /\ \A labelKeys \in (IF anyLabels THEN LabelInputs ELSE {held.labels}) :
                         RegisterResult(set', prom', kind, name, labelKeys).ret = "nil"

\* C24 as stated: UnRegisterCounter/Gauge/Summary/Histogram return an error
\* only for an invalid name; for a valid name that is not registered they
\* return nil and change nothing, and for a name registered with the same
\* kind they remove it so that the matching Get returns nil and a later
\* Register of the same name succeeds.
UnRegisterThenAnyRegister == [][UnRegisterStep(TRUE)]_vars

\* C24 amended: as above, where the later Register that succeeds is the one
\* of the same kind with the same name and the same label keys as the
\* metric that was removed.
UnRegisterThenSameRegister == [][UnRegisterStep(FALSE)]_vars

UnRegisterWitness ==
    /\ msCall.op = "UnRegister"
    /\ msCall.kind = "summary"
    /\ msCall.name = <<" ", "a", " ">>
    /\ msCall.ret = "nil"
    /\ set.keys = {}
    /\ \E d \in prom.dimHashesByName : d[2][1][1] = "summary"
    /\ prom.collectorsByID = {}

\* ---- the push loop ----

Ev(what, d) == [did |-> what, d |-> d]

\* what one iteration does after its flag check read true, when Push()
\* returns an error (err) or nil
Iteration(err) ==
    <<Ev("Start", 0),
      Ev(IF err THEN "Push: error" ELSE "Push: nil", 0),
      Ev(IF err THEN "FinishWithError" ELSE "Finish", 0),
      Ev("Sleep", AppliedInterval(opts))>>

\* how much of its iteration a loop at position pc has done
DoneAt(pc) ==
    CASE pc = "event" -> {0}
      [] pc = "pushing" -> {1}
      [] pc \in {"finish_ok", "finish_err"} -> {2}
      [] pc = "sleep" -> {3}
      [] pc = "check" -> {0, 4}
      [] OTHER -> {0}

\* C25: shape of one push-loop iteration: after a flag check that reads true
\* the task performs, in this order, one start-of-operation marker, exactly
\* one push, exactly one finish marker (the failed one iff the push returned
\* an error), and exactly one sleep of the configured interval, before the
\* next flag check; the same task never performs two pushes without a sleep
\* between them.
IterationShape ==
    /\ [](\A k \in Tasks :
            \E err \in BOOLEAN, n \in DoneAt(task[k]) :
                iter[k] = SubSeq(Iteration(err), 1, n))
    /\ [][\A k \in Tasks :
            /\ (task[k] = "check" /\ task'[k] # "check") =>
                   /\ task'[k] = (IF Running THEN "event" ELSE "done")
                   /\ iter'[k] = <<>>
            /\ (task[k] = "pushing" /\ task'[k] # "pushing") =>
                   iter[k] = <<Ev("Start", 0)>>
            /\ (task'[k] = "check" /\ task[k] \notin {"check", "none"}) =>
                   \E err \in BOOLEAN : iter'[k] = Iteration(err)]_vars

IterationShapeWitness ==
    /\ opts.IntervalMS = <<2>>
    /\ task[1] = "check"
    /\ iter[1] = <<Ev("Start", 0), Ev("Push: error", 0),
                   Ev("FinishWithError", 0), Ev("Sleep", 2)>>
    /\ task[2] = "sleep"
    /\ iter[2] = <<Ev("Start", 0), Ev("Push: nil", 0), Ev("Finish", 0)>>

\* ---- the flag and the guard ----

\* C26: every change of the running flag made by the publisher's operations
\* happens while the acting thread holds the publisher's guard: only Start
\* (false to true) and Stop (true to false) change it, and the background
\* loop only reads it.
FlagChangesUnderGuard ==
    /\ [][Running' # Running =>
            \E t \in Threads :
                /\ lock = t /\ lock' = t
                /\ \/ cpc[t] = "start_load" /\ cpc'[t] = "start_go"
                      /\ ~Running /\ Running'
                   \/ cpc[t] = "stop_cas" /\ cpc'[t] = "stop_unlock"
                      /\ Running /\ ~Running'
                /\ task' = task]_vars
    /\ [][\A k \in Tasks : task'[k] # task[k] => Running' = Running]_vars

\* a Stop has cleared the flag inside its critical section while a Start
\* waits for the guard and the loop is in the middle of an iteration
FlagChangesUnderGuardWitness ==
    \E t1, t2 \in Threads :
        /\ cpc[t1] = "stop_unlock" /\ lock = t1
        /\ cpc[t2] = "start_lock"
        /\ ~Running
        /\ \E k \in doomed : task[k] = "pushing"

\* ---- SetGatherer ----

\* a push of the publisher, by a loop or through the forwarder, is under way
PushInProgress ==
    \/ \E k \in Tasks : task[k] = "pushing"
    \/ \E t \in Threads : cpc[t] = "manual_push"

\* Start was called on the publisher
StartIssued ==
    \/ \E t \in Threads : cpc[t] # "idle"
    \/ lastReturned # "none"
    \/ Launched > 0
    \/ Running

\* C27: the gatherer is rebound only while no push can be in progress: in
\* RegisterPromEntriesWithConfig, SetGatherer is called on the publisher
\* before the entry is returned and hence before Bootstrap issues the first
\* Start, and no entry operation calls SetGatherer once the publisher has
\* been started.
GathererBoundBeforeStart ==
    /\ []((epc # "register" /\ pub # NilPub) =>
            gatherer = [bound |-> EntryGatherer,
                        by |-> "RegisterPromEntriesWithConfig"])
    /\ [][gatherer' # gatherer =>
            /\ epc = "register" /\ epc' = "registered"
            /\ ~StartIssued /\ ~PushInProgress]_vars
    /\ [][StartIssued => gatherer' = gatherer]_vars

\* the entry's publisher is pushing, with the gatherer bound at registration
GathererBoundWitness ==
    /\ epc = "booted"
    /\ gatherer.by = "RegisterPromEntriesWithConfig"
    /\ Running
    /\ \E k \in Tasks : task[k] = "pushing"

\* ---- Start and the tasks it launches ----

\* callers between the CAS of Start and its go statement
AboutToLaunch == {t \in Threads : cpc[t] = "start_go"}

\* C28: each Start call that finds the running flag false, including a Start
\* after an earlier Stop, sets the flag to true and launches exactly one new
\* background task; over any history the number of tasks ever launched
\* equals the number of false-to-true transitions of the flag (a Start that
\* is between its CAS and its go statement has its task still to launch).
StartLaunchesOne ==
    /\ [](flips = Launched + Cardinality(AboutToLaunch))
    /\ [][\A t \in Threads :
            /\ (cpc[t] = "start_load" /\ ~Running /\ cpc'[t] # "start_load") =>
                   /\ Running'
                   /\ cpc'[t] = "start_go"
                   /\ task' = task
            /\ (cpc[t] = "start_go" /\ cpc'[t] # "start_go") =>
                   /\ cpc'[t] = "start_unlock"
                   /\ Launched' = Launched + 1
                   /\ \E k \in Tasks :
                          /\ task[k] = "none" /\ task'[k] = "check"
                          /\ \A j \in Tasks \ {k} : task'[j] = task[j]
                   /\ Running' = Running]_vars
    /\ [][Launched' # Launched => \E t \in AboutToLaunch : cpc'[t] = "start_unlock"]_vars

\* Start, Stop, Start have returned: two transitions, two tasks launched
StartLaunchesOneWitness ==
    /\ flips = 2
    /\ Launched = 2
    /\ Running
    /\ lastReturned = "Start"
    /\ \A t \in Threads : cpc[t] = "idle"

\* ---- the flag and the tasks ----

\* callers inside the critical section of Start
InStart == {t \in Threads : cpc[t] \in {"start_load", "start_go", "start_unlock"}}

\* C29: whenever the running flag is true and no Start call is inside its
\* critical section, at least one background task is alive that has not
\* observed the flag as false, so a publisher that reports IsRunning() ==
\* true always has a task that will keep pushing.
RunningHasTask ==
    /\ []((Running /\ InStart = {}) => Alive(task) # {})
    /\ [][\A t \in Threads :
            (IsRunning(t) /\ cpc'[t] = "isrunning_true" /\ InStart = {})
                => \E k \in Tasks : task[k] \notin {"none", "done"}]_vars
    /\ [][\A k \in Tasks :
            (task[k] # "done" /\ task'[k] = "done") => ~Running]_vars

\* IsRunning answered true after Start, Stop, Start: the task of the first
\* Start has returned and the task of the second is pushing
RunningHasTaskWitness ==
    \E t \in Threads :
        /\ cpc[t] = "isrunning_true"
        /\ InStart = {}
        /\ task[1] = "done"
        /\ task[2] = "pushing"

\* ---- pushes after Stop ----

\* the pushes task k can still start while the flag stays false: one when
\* its last check read true and the push has not begun, none otherwise
PushesLeft(tk, k) == IF tk[k] = "event" THEN 1 ELSE 0

\* C30: after Stop has returned with no later Start, each background task
\* starts at most one more push: one only if the task had already read the
\* flag as true at the top of its loop before the Stop took effect, and none
\* once the task has slept and re-checked the flag.
AtMostOnePushAfterStop ==
    [][(~Running /\ ~Running') =>
          \A k \in Tasks :
              /\ PushesLeft(task', k) <= PushesLeft(task, k)
              /\ (task[k] # "pushing" /\ task'[k] = "pushing") =>
                     /\ PushesLeft(task, k) = 1
                     /\ PushesLeft(task', k) = 0
              /\ (task[k] = "check" /\ task'[k] # "check") => task'[k] = "done"
              /\ task[k] = "done" => task'[k] = "done"]_vars

\* Stop has returned while a task that had read the flag as true has its
\* push still to start
OnePushAfterStopWitness ==
    /\ ~Running
    /\ lastReturned = "Stop"
    /\ \A t \in Threads : cpc[t] = "idle"
    /\ \E k \in doomed : task[k] = "event"

\* ---- the configuration of a publisher ----

\* C31: Start, Stop, IsRunning and the push loop leave the publisher's
\* configuration unchanged: interval, remote address, job name, credential
\* and the forwarder reference keep the values fixed at construction across
\* any sequence of lifecycle calls and pushes.
ConfigurationFixed ==
    /\ [](pub # NilPub =>
            LET built == NewPushGatewayPusher(opts).pub
            IN /\ pub.IntervalMS = built.IntervalMS
               /\ pub.RemoteAddress = built.RemoteAddress
               /\ pub.JobName = built.JobName
               /\ pub.Credential = built.Credential
               /\ pub.Pusher = built.Pusher)
    /\ [][pub # NilPub => pub' = pub]_vars

\* Start and Stop have returned and a loop has pushed and ended, on a
\* publisher built with an interval and a credential
ConfigurationFixedWitness ==
    /\ pub # NilPub
    /\ opts.IntervalMS = <<1>>
    /\ opts.Credential # <<>>
    /\ lastReturned = "Stop"
    /\ task[1] = "done"

\* ---- an entry whose pusher configuration is rejected ----

\* the options are among those NewPushGatewayPusher rejects
Rejected ==
    \/ AppliedInterval(opts) <= 0
    \/ opts.RemoteAddress = <<>>
    \/ opts.JobName = <<>>

\* the pusher is enabled in the boot configuration
PusherEnabled == newErr # "disabled"

\* C32: when the boot configuration enables the pusher but its values are
\* rejected by NewPushGatewayPusher (intervalMs <= 0, empty remoteAddress or
\* empty jobName), RegisterPromEntriesWithConfig still returns an entry, that
\* entry has no publisher, and its Bootstrap and Interrupt neither start a
\* push task nor dereference the missing publisher.
RejectedPusherGivesBareEntry ==
    /\ [][(epc = "register" /\ PusherEnabled /\ Rejected /\ epc' # epc) =>
            /\ epc' = "registered"
            /\ pub' = NilPub
            /\ newErr' \in {"invalid intervalMS", "empty remoteAddress",
                            "empty job name"}]_vars
    /\ []((epc # "register" /\ PusherEnabled /\ Rejected) =>
            /\ pub = NilPub
            /\ Launched = 0
            /\ flips = 0
            /\ ~Running
            /\ lock = NoThread
            /\ \A t \in Threads : cpc[t] = "idle")
    /\ [][(PusherEnabled /\ Rejected) =>
            /\ (epc = "boot_pusher" /\ epc' # epc) => epc' \in {"booted", "exited"}
            /\ (epc \in {"registered", "booted", "interrupted"} /\ epc' = "int_in_stop")
                   => FALSE]_vars

\* an entry made from a configuration with intervalMs 0 was bootstrapped and
\* interrupted
RejectedPusherWitness ==
    /\ opts.IntervalMS = <<0>>
    /\ newErr = "invalid intervalMS"
    /\ epc = "interrupted"
    /\ server = "closed"

\* ---- Interrupt in any position ----

\* the entry's owner is inside Interrupt
InInterrupt == epc \in {"int_in_stop", "int_server"}

\* C33: Interrupt is safe in any lifecycle position: on an entry that was
\* never bootstrapped, and when called a second time after a first
\* Interrupt, it completes without failure, leaves the publisher's running
\* flag false and launches no task.
InterruptAlwaysSafe ==
    /\ [](epc \in {"registered", "interrupted"} => ENABLED InterruptPusher)
    /\ [](epc = "int_in_stop" =>
            (ENABLED EntryCallStep \/ ENABLED InterruptAfterStop))
    /\ [](epc = "int_server" => ENABLED InterruptServer)
    /\ [][(InInterrupt /\ epc' # epc) =>
            \/ epc' \in {"int_server", "interrupted"}
            \/ epc' = "exited" /\ server = "serving"]_vars
    /\ [][(InInterrupt \/ epc' = "int_in_stop") =>
            /\ Launched' = Launched
            /\ flips' = flips
            /\ ~Running => ~Running']_vars
    /\ []((epc = "interrupted" /\ server = "nil") => Launched = 0)
    /\ [](epc \in {"int_server", "interrupted"} => ~Running)

\* a second Interrupt, on an entry with a publisher whose server the first
\* one has closed, is past its Stop
InterruptAlwaysSafeWitness ==
    /\ epc = "int_server"
    /\ server = "closed"
    /\ pub # NilPub
    /\ lastReturned = "Stop"
    /\ ~Running

\* ---- MetricsSet: the keys and the four maps ----

\* the key set of s is the union of the key sets of its four maps, and
\* every key is in exactly one of them
KeysPartition(s) ==
    /\ s.keys = UNION {DOMAIN VecsOf(s, k) : k \in Kinds}
    /\ \A key \in s.keys : Cardinality(Holders(s, key)) = 1

\* C34: after any sequence of Register* and UnRegister* calls on a metrics
\* set, an UnRegister of one kind applied to a name registered as another
\* kind included, every call has returned and the key set equals the union
\* of the key sets of the counter, gauge, summary and histogram maps, each
\* key being in exactly one of the four maps.
KeysPartitionAfterCalls ==
    set # NoSet => (Up /\ KeysPartition(set))

\* ---- MetricsSet: name validation ----

\* a name whose whitespace-trimmed form is empty or longer than 128 characters
InvalidName(rawName) ==
    \/ Len(TrimSpace(rawName)) = 0
    \/ Len(TrimSpace(rawName)) > 128

\* the names that differ from rawName in surrounding whitespace only
Variants(rawName) == {n \in NameInputs : TrimSpace(n) = TrimSpace(rawName)}

\* C35: for every name whose whitespace-trimmed form is empty or longer than
\* 128 characters each Register* and UnRegister* call returns an error and
\* each Get* call returns nil, and none of them changes the set; names are
\* compared after trimming: after a Register of a name has succeeded, the
\* name and each padded variant of it get the same metric from Get*, are
\* refused as duplicates by every Register*, and are removed by UnRegister*
\* of the same kind.
NameValidation ==
    /\ [][(msCall'.op # "none" /\ InvalidName(msCall'.name)) =>
            /\ set' = set
            /\ prom' = prom
            /\ msCall'.op \in {"Register", "UnRegister"} =>
                   msCall'.ret \notin {"nil", "panic"}
            /\ msCall'.op = "Get" => msCall'.vec = NilVec]_vars
    /\ [][(msCall'.op = "Register" /\ msCall'.ret = "nil") =>
            /\ ~InvalidName(msCall'.name)
            /\ \A n \in Variants(msCall'.name) :
                   /\ GetVec(set', msCall'.kind, n) # NilVec
                   /\ GetVec(set', msCall'.kind, n) =
                          GetVec(set', msCall'.kind, msCall'.name)
                   /\ \A k \in Kinds, l \in LabelInputs :
                          RegisterResult(set', prom', k, n, l).ret = "duplicate metrics"
                   /\ UnRegisterResult(set', prom', msCall'.kind, n).set.keys =
                          set'.keys \ {KeyOf(set', msCall'.name)}]_vars

NameValidationWitness ==
    /\ msCall.op = "Register"
    /\ msCall.kind = "histogram"
    /\ msCall.name = <<" ">>
    /\ msCall.ret = "empty counter name"
    /\ Holders(set, KeyOf(set, <<" ", "a", " ">>)) = {"gauge"}

\* ---- MetricsSet: a metric the registry rejects ----

\* C36: a Register* call whose key is free in the set but whose metric is
\* rejected by the registry (for example because another set with the same
\* namespace and subsystem has registered it) returns the registry's error
\* and leaves the set unchanged: the key is not recorded and the matching
\* Get* still returns nil.
RejectedByRegistryLeavesSet ==
    [][msCall'.op = "Register" =>
         LET kind == msCall'.kind
             name == TrimSpace(msCall'.name)
             key == getKey(set, name)
             r == PromRegister(prom, NewVec(set, kind, name, msCall'.labelKeys))
         IN (validateRawName(name) = "nil" /\ key \notin set.keys /\ r.err # "nil") =>
                /\ msCall'.ret = r.err
                /\ set' = set
                /\ prom' = prom
                /\ key \notin set'.keys
                /\ \A n \in Variants(msCall'.name) :
                       GetVec(set', kind, n) = NilVec]_vars

RejectedByRegistryWitness ==
    /\ msCall.op = "Register"
    /\ msCall.kind = "counter"
    /\ msCall.name = <<"a">>
    /\ msCall.ret = "AlreadyRegisteredError"
    /\ set # NoSet
    /\ set.keys = {}
    /\ prom = OtherSetRegistry
====
